---- MODULE Spec2Model ----
(***************************************************************************)
(* A model of atlas-search-cli: the subcommand program                     *)
(* src/atlas_search_cli/main.py (config set / config list / lexical /      *)
(* vector) and the single-command program src/main.py (default pipeline or *)
(* --searchAggFile template).                                              *)
(*                                                                         *)
(* One process run is modelled step by step: argument parsing, the         *)
(* handler's resolution and validation, the embedding request, and the     *)
(* database call.  The two library calls are the environment: each         *)
(* returns or raises nondeterministically.                                 *)
(***************************************************************************)
EXTENDS Integers, Sequences, FiniteSets, TLC

(***************************************************************************)
(* Python values.  Every value the programs handle is one of None, a bool, *)
(* an int, a str, a list or a dict; the tag is the record's only field, so *)
(* values of different types are never equal.                              *)
(***************************************************************************)
None == [none |-> TRUE]
PyBool(b) == [bool |-> b]
PyInt(n) == [int |-> n]
PyStr(s) == [str |-> s]
PyList(q) == [list |-> q]
PyDict(f) == [dict |-> f]

IsNone(x) == DOMAIN x = {"none"}
IsBool(x) == DOMAIN x = {"bool"}
IsInt(x) == DOMAIN x = {"int"}
IsStr(x) == DOMAIN x = {"str"}
IsList(x) == DOMAIN x = {"list"}
IsDict(x) == DOMAIN x = {"dict"}

EmptyDict == PyDict(<<>>)

\* Python's truth value of an object: None, False, 0, "", [] and {} are false.
Truthy(x) ==
    CASE IsNone(x) -> FALSE
      [] IsBool(x) -> x.bool
      [] IsInt(x) -> x.int # 0
      [] IsStr(x) -> x.str # ""
      [] IsList(x) -> x.list # <<>>
      [] IsDict(x) -> DOMAIN x.dict # {}

\* The conditional expression `a if a else b`.
IfElse(a, b) == IF Truthy(a) THEN a ELSE b

\* dict.get(key, default)
Get(d, key, default) == IF key \in DOMAIN d.dict THEN d.dict[key] ELSE default

\* d[key] = value
SetItem(d, key, value) ==
    PyDict([k \in DOMAIN d.dict \cup {key} |-> IF k = key THEN value ELSE d.dict[k]])

Range(q) == {q[i] : i \in DOMAIN q}

(***************************************************************************)
(* Text.  A text is a sequence of pieces: the JSON punctuation marks, the  *)
(* quote, the escaped quote, the placeholder token, and runs of ordinary   *)
(* characters.                                                             *)
(***************************************************************************)
Q == "\""
EscQ == "\\\""
Placeholder == "%%SEARCH_QUERY%%"

\* The number and literal pieces the model's texts use.
NumberPieces == {"0", "1", "5"}
NumberOf(p) == CASE p = "0" -> 0 [] p = "1" -> 1 [] p = "5" -> 5

RECURSIVE Join(_)
\* The str a sequence of pieces spells.
Join(t) == IF t = <<>> THEN "" ELSE Head(t) \o Join(Tail(t))

RECURSIVE Replace(_, _, _)
\* str.replace(old, new): every occurrence of the piece `old` becomes `new`.
Replace(t, old, new) ==
    IF t = <<>> THEN <<>>
    ELSE (IF Head(t) = old THEN new ELSE <<Head(t)>>) \o Replace(Tail(t), old, new)

\* `old in text`
Contains(t, old) == \E i \in DOMAIN t : t[i] = old

(***************************************************************************)
(* json.loads: a recursive-descent parse of a text into a Python value.    *)
(* A result is [ok, val, next]; ok = FALSE is json.JSONDecodeError.        *)
(***************************************************************************)
ParseFail == [ok |-> FALSE, val |-> None, next |-> 0]
ParseOk(v, n) == [ok |-> TRUE, val |-> v, next |-> n]

Unescape(p) == IF p = EscQ THEN Q ELSE p

RECURSIVE ParseString(_, _, _)
\* t[i] is the first piece after an opening quote.
ParseString(t, i, acc) ==
    IF i > Len(t) THEN ParseFail
    ELSE IF t[i] = Q THEN ParseOk(PyStr(acc), i + 1)
    ELSE ParseString(t, i + 1, acc \o Unescape(t[i]))

RECURSIVE ParseValue(_, _)
RECURSIVE ParseElements(_, _, _)
RECURSIVE ParseMembers(_, _, _)

ParseValue(t, i) ==
    IF i > Len(t) THEN ParseFail
    ELSE CASE t[i] = Q -> ParseString(t, i + 1, "")
           [] t[i] = "[" ->
                IF i + 1 <= Len(t) /\ t[i + 1] = "]"
                THEN ParseOk(PyList(<<>>), i + 2)
                ELSE ParseElements(t, i + 1, <<>>)
           [] t[i] = "{" ->
                IF i + 1 <= Len(t) /\ t[i + 1] = "}"
                THEN ParseOk(EmptyDict, i + 2)
                ELSE ParseMembers(t, i + 1, EmptyDict)
           [] t[i] \in NumberPieces -> ParseOk(PyInt(NumberOf(t[i])), i + 1)
           [] t[i] = "null" -> ParseOk(None, i + 1)
           [] t[i] = "true" -> ParseOk(PyBool(TRUE), i + 1)
           [] t[i] = "false" -> ParseOk(PyBool(FALSE), i + 1)
           [] OTHER -> ParseFail

\* The elements of an array, t[i] starting one; acc holds those read so far.
ParseElements(t, i, acc) ==
    LET r == ParseValue(t, i) IN
    IF ~r.ok \/ r.next > Len(t) THEN ParseFail
    ELSE IF t[r.next] = "," THEN ParseElements(t, r.next + 1, Append(acc, r.val))
    ELSE IF t[r.next] = "]" THEN ParseOk(PyList(Append(acc, r.val)), r.next + 1)
    ELSE ParseFail

\* The members of an object, t[i] starting a key; a repeated key keeps the last.
ParseMembers(t, i, acc) ==
    IF i > Len(t) \/ t[i] # Q THEN ParseFail
    ELSE LET k == ParseString(t, i + 1, "") IN
         IF ~k.ok \/ k.next > Len(t) \/ t[k.next] # ":" THEN ParseFail
         ELSE LET r == ParseValue(t, k.next + 1) IN
              IF ~r.ok \/ r.next > Len(t) THEN ParseFail
              ELSE IF t[r.next] = ","
                   THEN ParseMembers(t, r.next + 1, SetItem(acc, k.val.str, r.val))
              ELSE IF t[r.next] = "}"
                   THEN ParseOk(SetItem(acc, k.val.str, r.val), r.next + 1)
              ELSE ParseFail

\* json.loads(text): one value and nothing after it.
Loads(t) ==
    LET r == ParseValue(t, 1) IN
    IF r.ok /\ r.next = Len(t) + 1 THEN r ELSE ParseFail

(***************************************************************************)
(* json.dump of a profile: a flat object whose values are strings or lists *)
(* of strings.  The keys are written in the order of ProfileKeys, which is *)
(* the order handle_config_set inserts them in.                            *)
(***************************************************************************)
ProfileKeys ==
    << "connectionString", "db", "coll", "index", "field", "projectField",
       "voyageAPIKey", "voyageModel" >>

\* A str as JSON (the model's profile strings hold no character to escape).
DumpStr(s) == IF s = "" THEN <<Q, Q>> ELSE <<Q, s, Q>>

RECURSIVE DumpStrs(_)
DumpStrs(q) ==
    IF q = <<>> THEN <<>>
    ELSE DumpStr(Head(q).str) \o (IF Tail(q) = <<>> THEN <<>> ELSE <<",">>)
         \o DumpStrs(Tail(q))

DumpValue(v) ==
    IF IsStr(v) THEN DumpStr(v.str) ELSE <<"[">> \o DumpStrs(v.list) \o <<"]">>

RECURSIVE DumpMembers(_, _, _)
DumpMembers(d, keys, first) ==
    IF keys = <<>> THEN <<>>
    ELSE IF Head(keys) \notin DOMAIN d.dict THEN DumpMembers(d, Tail(keys), first)
    ELSE (IF first THEN <<>> ELSE <<",">>)
         \o DumpStr(Head(keys)) \o <<":">> \o DumpValue(d.dict[Head(keys)])
         \o DumpMembers(d, Tail(keys), FALSE)

\* json.dump(config, f, indent=2), white space left out
Dumps(d) == <<"{">> \o DumpMembers(d, ProfileKeys, TRUE) \o <<"}">>

(***************************************************************************)
(* The state: the profile directory, the process environment, and one      *)
(* process run (its command line as parsed, the handler's locals, what it  *)
(* wrote, the library calls it made, and its exit code).                   *)
(***************************************************************************)
VARIABLES
    files,          \* CONFIGS_DIR: profile name -> the text of <name>.json
    configs_dir,    \* whether CONFIGS_DIR exists
    environ,        \* os.environ
    pc,             \* where the process is
    argv,           \* the command line: each flag's occurrences
    args,           \* the argparse namespace
    local,          \* the handler's local variables
    pipeline,       \* the aggregation pipeline, once built
    stdout,         \* what was printed to standard output, in order
    stderr,         \* what was printed to the diagnostic stream, in order
    net,            \* the library calls that reach the network, in order
    exit_code,      \* None while the process runs, then its exit status
    runs            \* processes started so far

vars ==
    << files, configs_dir, environ, pc, argv, args, local, pipeline, stdout, stderr,
       net, exit_code, runs >>

(***************************************************************************)
(* Bounds of the model.                                                    *)
(***************************************************************************)
\* `config set` runs in a row
MaxRuns == 3
\* --field occurrences on one command line
MaxFieldFlags == 2
\* --projectField occurrences on one command line
MaxProjectFlags == 2

(***************************************************************************)
(* The profile store: get_config and save_config.                          *)
(***************************************************************************)
ProfileNames == {"p1", "p2"}

\* get_config(config_name): {} when the file does not exist
get_config(fs, config_name) ==
    IF config_name \notin DOMAIN fs THEN EmptyDict ELSE Loads(fs[config_name]).val

\* save_config(config_name, config): the files afterwards
save_config(fs, config_name, config) ==
    [n \in DOMAIN fs \cup {config_name} |->
        IF n = config_name THEN Dumps(config) ELSE fs[n]]

RECURSIVE UpdateFrom(_, _, _)
\* handle_config_set's `if args.<key>: config[<key>] = args.<key>`, key by key
UpdateFrom(config, a, keys) ==
    IF keys = <<>> THEN config
    ELSE UpdateFrom(IF Truthy(a[Head(keys)])
                    THEN SetItem(config, Head(keys), a[Head(keys)])
                    ELSE config,
                    a, Tail(keys))

\* A plausible slip: the document is rebuilt from the flags alone.
UpdateConfigReplacing(config, a) == UpdateFrom(EmptyDict, a, ProfileKeys)

\* The config handle_config_set saves: the loaded one with the passed flags set.
UpdateConfig(config, a) == UpdateFrom(config, a, ProfileKeys)

(***************************************************************************)
(* What the processes print.  An output is [line, value]: the fixed text   *)
(* of the message and the value formatted into it.                         *)
(***************************************************************************)
Out(line, value) == [line |-> line, value |-> value]

MsgSaved == "Configuration '{name}' saved."
MsgNoConfigs == "No configurations saved yet."
MsgSavedConfigs == "Saved configurations:"
MsgConfigItem == "- {name}"
MsgResults == "json.dumps(results, indent=2, default=str)"
MsgNotConfigured ==
    "Error: Connection details not configured. Please run 'atlas-search config set <name>' first."
MsgFieldRequired == "Error: --field is required for vector search."
MsgMultipleFields ==
    "Warning: Multiple fields specified for vector search. Only the first field will be used."
MsgKeyRequired ==
    "Error: Voyage AI API key is required. Set the VOYAGE_API_KEY environment variable or use the --voyageAPIKey flag."
MsgExecuting == "Executing aggregation pipeline:"
MsgPipeline == "json.dumps(pipeline, indent=2)"
MsgConnectionFailure == "Error: Could not connect to MongoDB: {e}"
MsgOperationFailure == "Error: MongoDB operation failed: {e}"
MsgUnexpected == "An unexpected error occurred: {e}"
MsgTraceback == "Traceback (most recent call last):"
MsgConnRequired == "Error: Connection string is required."
MsgDbRequired == "Error: Database name is required."
MsgCollRequired == "Error: Collection name is required."
MsgNoPlaceholder ==
    "Error: The aggregation file '{searchAggFile}' must contain the '%%SEARCH_QUERY%%' placeholder."
MsgNotArray ==
    "Error: The aggregation file '{searchAggFile}' must contain a valid JSON array (pipeline)."
MsgFileNotFound == "Error: Aggregation file not found at '{searchAggFile}'"
MsgInvalidJson == "Error: Invalid JSON in aggregation file '{searchAggFile}'"

(***************************************************************************)
(* `atlas-search config set <name> [flags]` and `atlas-search config list`.*)
(***************************************************************************)
\* The values a `config set` flag takes in the model (--field and
\* --projectField are action='append': lists).
SetValues(k) ==
    CASE k = "connectionString" -> {PyStr("mongodb://prof")}
      [] k = "db" -> {PyStr("prof_db"), PyStr("prof_db2")}
      [] k = "coll" -> {PyStr("prof_coll")}
      [] k = "index" -> {PyStr(""), PyStr("prof_index")}
      [] k = "field" -> {PyList(<<PyStr("pf1")>>), PyList(<<PyStr("pf1"), PyStr("pf2")>>)}
      [] k = "projectField" -> {PyList(<<PyStr("a"), PyStr("b")>>)}
      [] k = "voyageAPIKey" -> {PyStr("prof_key")}
      [] k = "voyageModel" -> {PyStr("prof_model")}

\* The namespace of `config set name` with the flags of `given` passed
ConfigSetNamespace(name, given) ==
    [k \in Range(ProfileKeys) \cup {"command", "name"} |->
        CASE k = "command" -> PyStr("config set")
          [] k = "name" -> PyStr(name)
          [] k \in DOMAIN given -> given[k]
          [] OTHER -> None]

\* The sets of flags one `config set` command line passes in the model: none,
\* any single flag, and the groups that belong together.
SetFlagSets ==
    {S \in SUBSET Range(ProfileKeys) : Cardinality(S) <= 1}
    \cup { {"connectionString", "db", "coll"}, {"index", "field"},
           {"db", "projectField"}, {"voyageAPIKey", "voyageModel"} }

\* The command lines of `config set`
ConfigSetArgs ==
    UNION { { ConfigSetNamespace(name, given) :
                given \in {g \in [K -> UNION {SetValues(k) : k \in K}] :
                             \A k \in K : g[k] \in SetValues(k)},
                name \in ProfileNames } :
            K \in SetFlagSets }

\* One run of `config set`
HandleConfigSet ==
    /\ pc \in {"shell", "exit"}
    /\ runs < MaxRuns
    /\ \E a \in ConfigSetArgs :
        LET config == UpdateConfig(get_config(files, a.name.str), a) IN
        /\ argv' = a
        /\ args' = a
        /\ files' = save_config(files, a.name.str, config)
        /\ configs_dir' = TRUE
        /\ stdout' = <<Out(MsgSaved, a.name)>>
    /\ stderr' = <<>>
    /\ exit_code' = PyInt(0)
    /\ pc' = "exit"
    /\ runs' = runs + 1
    /\ UNCHANGED <<environ, local, pipeline, net>>

\* The orders os.listdir may give the names in
Listings(S) == {q \in [1..Cardinality(S) -> S] : Range(q) = S}

\* One run of `config list`
HandleConfigList ==
    /\ pc \in {"shell", "exit"}
    /\ runs < MaxRuns
    /\ argv' = <<>>
    /\ args' = [command |-> PyStr("config list")]
    /\ IF ~configs_dir \/ DOMAIN files = {}
       THEN stdout' = <<Out(MsgNoConfigs, None)>>
       ELSE \E configs \in Listings(DOMAIN files) :
              stdout' = <<Out(MsgSavedConfigs, None)>>
                        \o [i \in DOMAIN configs |-> Out(MsgConfigItem, PyStr(configs[i]))]
    /\ stderr' = <<>>
    /\ exit_code' = PyInt(0)
    /\ pc' = "exit"
    /\ runs' = runs + 1
    /\ UNCHANGED <<files, configs_dir, environ, local, pipeline, net>>

\* No profile saved yet, no process started
InitConfig ==
    /\ files = <<>>
    /\ configs_dir = FALSE
    /\ environ = EmptyDict
    /\ pc = "shell"
    /\ argv = <<>>
    /\ args = <<>>
    /\ local = <<>>
    /\ pipeline = None
    /\ stdout = <<>>
    /\ stderr = <<>>
    /\ net = <<>>
    /\ exit_code = None
    /\ runs = 0

NextConfig == HandleConfigSet \/ HandleConfigList

SpecConfig == InitConfig /\ [][NextConfig]_vars

(***************************************************************************)
(* argparse.  A command line gives each flag's occurrences in order.       *)
(***************************************************************************)
\* action='store' (the default): the last occurrence, or the default
ArgStore(occurrences, default) ==
    IF occurrences = <<>> THEN default ELSE occurrences[Len(occurrences)]

\* action='append': the list of the occurrences, or None
ArgAppend(occurrences) ==
    IF occurrences = <<>> THEN None ELSE PyList(occurrences)

\* The defaults the parsers declare
DefaultLimit == 10
DefaultNumCandidates == 100
DefaultVoyageModel == "voyage-3.5"
\* The factor of the computed numCandidates
NumCandidatesFactor == 10

\* The occurrences of a flag given at most once
Once(values) == {<<>>} \cup {<<v>> : v \in values}

\* The first n entries of a sequence
Prefix(q, n) == SubSeq(q, 1, n)

FieldPool == <<PyStr("cf1"), PyStr("cf2"), PyStr("cf3")>>
ProjectPool == <<PyStr("b"), PyStr("c"), PyStr("b")>>

\* The occurrences of --field and of --projectField on a command line
FieldFlags == {Prefix(FieldPool, n) : n \in 0..MaxFieldFlags}
ProjectFlags == {Prefix(ProjectPool, n) : n \in 0..MaxProjectFlags}

(***************************************************************************)
(* The pipelines.                                                          *)
(***************************************************************************)
WildcardPath == PyDict("wildcard" :> PyStr("*"))

\* The project fields taken as they come, repeats kept: a plausible slip.
ProjectFieldListsConcatenated(config_project_fields, cli_project_fields) ==
    {config_project_fields.list \o cli_project_fields.list}

\* list(set(config_project_fields + cli_project_fields)): the elements once
\* each, in the order the set happens to iterate in.
ProjectFieldLists(config_project_fields, cli_project_fields) ==
    LET S == Range(config_project_fields.list \o cli_project_fields.list) IN
    {q \in [1..Cardinality(S) -> S] : Range(q) = S}

RECURSIVE ProjectBody(_, _)
\* for field in project_fields: project_stage["$project"][field] = 1
ProjectBody(body, project_fields) ==
    IF project_fields = <<>> THEN body
    ELSE ProjectBody(SetItem(body, Head(project_fields).str, PyInt(1)),
                     Tail(project_fields))

\* The stages `if project_fields:` appends
ProjectStages(project_fields) ==
    IF project_fields # <<>>
    THEN <<PyDict("$project" :> ProjectBody(EmptyDict, project_fields))>>
    ELSE <<>>

\* A plausible slip: no $limit stage (the earliest revision's pipeline).
LexicalPipelineNoLimit(index, query, path, limit, project_fields) ==
    PyList(<<PyDict("$search" :>
                PyDict("index" :> index
                       @@ "text" :> PyDict("query" :> query @@ "path" :> path)))>>
           \o ProjectStages(project_fields))

\* handle_lexical_search's pipeline
LexicalPipeline(index, query, path, limit, project_fields) ==
    PyList(<<PyDict("$search" :>
                PyDict("index" :> index
                       @@ "text" :> PyDict("query" :> query @@ "path" :> path))),
             PyDict("$limit" :> limit)>>
           \o ProjectStages(project_fields))

\* handle_vector_search's pipeline
VectorPipeline(index, query_key, query_vector, field, numCandidates, limit, project_fields) ==
    PyList(<<PyDict("$vectorSearch" :>
                PyDict("index" :> index
                       @@ query_key :> query_vector
                       @@ "path" :> field
                       @@ "numCandidates" :>
                            (IF Truthy(numCandidates) THEN numCandidates
                             ELSE PyInt(NumCandidatesFactor * limit.int))
                       @@ "limit" :> limit))>>
           \o ProjectStages(project_fields))

\* The default pipeline of the single-command program
DefaultPipeline(query) ==
    PyList(<<PyDict("$search" :>
                PyDict("index" :> PyStr("default")
                       @@ "text" :> PyDict("query" :> query
                                           @@ "path" :> WildcardPath)))>>)

(***************************************************************************)
(* The library calls.                                                      *)
(***************************************************************************)
\* What the embedding request may give: a vector, or an exception
Embedding == PyList(<<PyInt(1), PyInt(0)>>)
EmbedOutcomes == {"ok", "Exception"}

\* What the server may answer with
ServerResults ==
    { PyList(<<>>),
      PyList(<<PyDict("_id" :> PyInt(1)), PyDict("_id" :> PyInt(5))>>) }

\* How MongoClient(...) followed by collection.aggregate(...) may end
ExecuteOutcomes ==
    {"ok", "ClientException", "ConnectionFailure", "OperationFailure", "Exception"}

\* The message of the except clause that catches the outcome
FailureMessage(outcome) ==
    CASE outcome = "ConnectionFailure" -> MsgConnectionFailure
      [] outcome = "OperationFailure" -> MsgOperationFailure
      [] OTHER -> MsgUnexpected

\* if verbose: the pipeline on the diagnostic stream
VerboseOutput(verbose, p) ==
    IF Truthy(verbose) THEN <<Out(MsgExecuting, None), Out(MsgPipeline, p)>> ELSE <<>>

\* A plausible slip: what the server sent is printed before the failure is seen.
PrintedResultsAlways(outcome, results) == <<Out(MsgResults, results)>>

\* What reaches standard output: the results, once aggregate has returned.
PrintedResults(outcome, results) ==
    IF outcome = "ok" THEN <<Out(MsgResults, results)>> ELSE <<>>

\* The record of a library call: what was passed, whether it returned, and what
CallEmbed(api_key, model, query, returned, value) ==
    [call |-> "voyageai.Client.embed", a |-> api_key, b |-> model, c |-> query,
     returned |-> returned, value |-> value]
CallClient(connection_string, returned) ==
    [call |-> "MongoClient", a |-> connection_string, b |-> None, c |-> None,
     returned |-> returned, value |-> None]
CallAggregate(db_name, coll_name, p, returned, value) ==
    [call |-> "collection.aggregate", a |-> db_name, b |-> coll_name, c |-> p,
     returned |-> returned, value |-> value]

(***************************************************************************)
(* The profiles a search run may find, each written by `config set`.       *)
(***************************************************************************)
\* config set p1 with every flag
FullFlags ==
    [k \in Range(ProfileKeys) |->
        CASE k = "connectionString" -> PyStr("mongodb://prof")
          [] k = "db" -> PyStr("prof_db")
          [] k = "coll" -> PyStr("prof_coll")
          [] k = "index" -> PyStr("prof_index")
          [] k = "field" -> PyList(<<PyStr("pf1"), PyStr("pf2")>>)
          [] k = "projectField" -> PyList(<<PyStr("a"), PyStr("b")>>)
          [] k = "voyageAPIKey" -> PyStr("prof_key")
          [] k = "voyageModel" -> PyStr("prof_model")]

\* config set p1 --connectionString .. --db .. --coll .. --field pf1
ConnectionFlags ==
    [k \in {"connectionString", "db", "coll", "field"} |->
        IF k = "field" THEN PyList(<<PyStr("pf1")>>) ELSE FullFlags[k]]

\* config set p1 with the search settings only
SearchFlags ==
    [k \in {"index", "field", "projectField", "voyageAPIKey", "voyageModel"} |->
        FullFlags[k]]

\* The files after `config set p1 <flags>` in an empty directory
SavedBy(flags) ==
    save_config(<<>>, "p1",
                UpdateConfig(get_config(<<>>, "p1"), ConfigSetNamespace("p1", flags)))

Stores == {<<>>, SavedBy(FullFlags), SavedBy(ConnectionFlags), SavedBy(SearchFlags)}

Environs == {EmptyDict, PyDict("VOYAGE_API_KEY" :> PyStr("env_key"))}

(***************************************************************************)
(* Steps shared by the handlers.                                           *)
(***************************************************************************)
\* current_config = get_config(args.config) if args.config else {}
CurrentConfig(a, fs) ==
    IF Truthy(a.config) THEN get_config(fs, a.config.str) ELSE EmptyDict

\* A plausible slip: the collection name is not checked.
ConnectionDetailsMissingNoColl(connection_string, db_name, coll_name) ==
    ~Truthy(connection_string) \/ ~Truthy(db_name)

\* not connection_string or not db_name or not coll_name
ConnectionDetailsMissing(connection_string, db_name, coll_name) ==
    ~Truthy(connection_string) \/ ~Truthy(db_name) \/ ~Truthy(coll_name)

\* sys.exit(1) after an error message; an uncaught exception ends the same way
ExitWith(message, value) ==
    /\ stderr' = Append(stderr, Out(message, value))
    /\ exit_code' = PyInt(1)
    /\ pc' = "exit"

(***************************************************************************)
(* `atlas-search lexical <query> [flags]`                                  *)
(***************************************************************************)
\* The connection details are passed all three, all but one, or not at all
DetailsPassed(cl) ==
    Cardinality({k \in {"connectionString", "db", "coll"} : cl[k] = <<>>}) \in {0, 1, 3}

LexicalCommandLines ==
    { cl \in
    [ query : {<<"hello">>},
      config : Once({PyStr("p1")}),
      field : FieldFlags,
      projectField : ProjectFlags,
      index : Once({PyStr("cli_index")}),
      limit : Once({PyInt(5)}),
      connectionString : Once({PyStr("mongodb://cli")}),
      db : Once({PyStr("cli_db")}),
      coll : Once({PyStr("cli_coll")}),
      verbose : BOOLEAN ] :
      DetailsPassed(cl) }

\* lexical_parser.parse_args
ParseLexical(cl) ==
    [ command |-> PyStr("lexical"),
      query |-> PyStr(Join(cl.query)),
      config |-> ArgStore(cl.config, None),
      field |-> ArgAppend(cl.field),
      projectField |-> ArgAppend(cl.projectField),
      index |-> ArgStore(cl.index, None),
      limit |-> ArgStore(cl.limit, PyInt(DefaultLimit)),
      connectionString |-> ArgStore(cl.connectionString, None),
      db |-> ArgStore(cl.db, None),
      coll |-> ArgStore(cl.coll, None),
      verbose |-> PyBool(cl.verbose) ]

\* main() of the subcommand program, called as `lexical`
MainLexical ==
    /\ pc = "shell"
    /\ \E cl \in LexicalCommandLines :
        /\ argv' = cl
        /\ args' = ParseLexical(cl)
    /\ pc' = "handle_lexical_search"
    /\ runs' = runs + 1
    /\ UNCHANGED <<files, configs_dir, environ, local, pipeline, stdout, stderr,
                   net, exit_code>>

\* handle_lexical_search down to its call of execute_pipeline
HandleLexicalSearch ==
    /\ pc = "handle_lexical_search"
    /\ \E current_config \in {CurrentConfig(args, files)} :
       LET connection_string ==
               IfElse(args.connectionString, Get(current_config, "connectionString", None))
           db_name == IfElse(args.db, Get(current_config, "db", None))
           coll_name == IfElse(args.coll, Get(current_config, "coll", None))
           path == IfElse(args.field, Get(current_config, "field", WildcardPath))
           index == IfElse(args.index, Get(current_config, "index", PyStr("default")))
           config_project_fields == Get(current_config, "projectField", PyList(<<>>))
           cli_project_fields == IfElse(args.projectField, PyList(<<>>))
           resolved == [ connection_string |-> connection_string,
                         db_name |-> db_name, coll_name |-> coll_name ]
       IN
       IF ConnectionDetailsMissing(connection_string, db_name, coll_name)
       THEN /\ ExitWith(MsgNotConfigured, None)
            /\ local' = resolved
            /\ UNCHANGED pipeline
       ELSE \E project_fields \in
                    ProjectFieldLists(config_project_fields, cli_project_fields) :
            /\ local' = resolved @@ [ path |-> path, index |-> index,
                                      project_fields |-> project_fields ]
            /\ pipeline' = LexicalPipeline(index, args.query, path, args.limit,
                                           project_fields)
            /\ pc' = "execute_pipeline"
            /\ UNCHANGED <<stderr, exit_code>>
    /\ UNCHANGED <<files, configs_dir, environ, argv, args, stdout, net, runs>>

(***************************************************************************)
(* execute_pipeline                                                        *)
(***************************************************************************)
ExecutePipeline ==
    /\ pc = "execute_pipeline"
    /\ \E outcome \in ExecuteOutcomes, results \in ServerResults :
        /\ net' = net
                  \o <<CallClient(local.connection_string, outcome # "ClientException")>>
                  \o (IF outcome = "ClientException" THEN <<>>
                      ELSE <<CallAggregate(local.db_name, local.coll_name, pipeline,
                                           outcome = "ok",
                                           IF outcome = "ok" THEN results ELSE None)>>)
        /\ stderr' = stderr
                     \o (IF outcome = "ClientException" THEN <<>>
                         ELSE VerboseOutput(args.verbose, pipeline))
                     \o (IF outcome = "ok" THEN <<>>
                         ELSE <<Out(FailureMessage(outcome), PyStr(outcome))>>)
        /\ stdout' = stdout \o PrintedResults(outcome, results)
        /\ exit_code' = IF outcome = "ok" THEN PyInt(0) ELSE PyInt(1)
    /\ pc' = "exit"
    /\ UNCHANGED <<files, configs_dir, environ, argv, args, local, pipeline, runs>>

(***************************************************************************)
(* `atlas-search vector <query> [flags]`                                   *)
(***************************************************************************)
\* --voyageModel and --voyageAPIKey are passed along with --embedWithVoyage,
\* and --voyageModel along with a key
VectorCommandLines ==
    { cl \in
        [ query : {<<"hello">>},
          config : Once({PyStr("p1")}),
          field : FieldFlags,
          projectField : ProjectFlags,
          index : Once({PyStr("cli_index")}),
          numCandidates : Once({PyInt(20)}),
          limit : Once({PyInt(5)}),
          embedWithVoyage : BOOLEAN,
          voyageModel : Once({PyStr("cli_model")}),
          voyageAPIKey : Once({PyStr(""), PyStr("cli_key")}),
          connectionString : Once({PyStr("mongodb://cli")}),
          db : Once({PyStr("cli_db")}),
          coll : Once({PyStr("cli_coll")}),
          verbose : {FALSE} ] :
      /\ DetailsPassed(cl)
      /\ cl.embedWithVoyage \/ (cl.voyageModel = <<>> /\ cl.voyageAPIKey = <<>>)
      /\ cl.voyageModel # <<>> => cl.voyageAPIKey = <<PyStr("cli_key")>> }

\* vector_parser.parse_args: --field is a plain store, and --numCandidates and
\* --voyageModel declare defaults
ParseVector(cl) ==
    [ command |-> PyStr("vector"),
      query |-> PyStr(Join(cl.query)),
      config |-> ArgStore(cl.config, None),
      field |-> ArgStore(cl.field, None),
      projectField |-> ArgAppend(cl.projectField),
      index |-> ArgStore(cl.index, None),
      numCandidates |-> ArgStore(cl.numCandidates, PyInt(DefaultNumCandidates)),
      limit |-> ArgStore(cl.limit, PyInt(DefaultLimit)),
      embedWithVoyage |-> PyBool(cl.embedWithVoyage),
      voyageModel |-> ArgStore(cl.voyageModel, PyStr(DefaultVoyageModel)),
      voyageAPIKey |-> ArgStore(cl.voyageAPIKey, None),
      connectionString |-> ArgStore(cl.connectionString, None),
      db |-> ArgStore(cl.db, None),
      coll |-> ArgStore(cl.coll, None),
      verbose |-> PyBool(cl.verbose) ]

\* main() of the subcommand program, called as `vector`
MainVector ==
    /\ pc = "shell"
    /\ \E cl \in VectorCommandLines :
        /\ argv' = cl
        /\ args' = ParseVector(cl)
    /\ pc' = "handle_vector_search"
    /\ runs' = runs + 1
    /\ UNCHANGED <<files, configs_dir, environ, local, pipeline, stdout, stderr,
                   net, exit_code>>

\* A plausible slip: the last entry of a field list is taken.
SearchFieldLast(field) ==
    IF IsList(field) THEN field.list[Len(field.list)] ELSE field

\* elif isinstance(field, list): field = field[0]
SearchField(field) == IF IsList(field) THEN field.list[1] ELSE field

\* if len(field) > 1: the warning
FieldWarning(field) ==
    IF IsList(field) /\ Len(field.list) > 1
    THEN <<Out(MsgMultipleFields, None)>>
    ELSE <<>>

\* A plausible slip: the environment variable is looked up first.
ResolveApiKeyEnvFirst(flag, current_config, env) ==
    Get(env, "VOYAGE_API_KEY", IfElse(flag, Get(current_config, "voyageAPIKey", None)))

\* args.voyageAPIKey if args.voyageAPIKey else
\*     current_config.get('voyageAPIKey', os.environ.get("VOYAGE_API_KEY"))
ResolveApiKey(flag, current_config, env) ==
    IfElse(flag, Get(current_config, "voyageAPIKey", Get(env, "VOYAGE_API_KEY", None)))

\* args.voyageModel if args.voyageModel else
\*     current_config.get('voyageModel', 'voyage-3.5')
ResolveModel(flag, current_config) ==
    IfElse(flag, Get(current_config, "voyageModel", PyStr(DefaultVoyageModel)))

\* handle_vector_search down to the embedding request, or without one down to
\* its call of execute_pipeline
HandleVectorSearch ==
    /\ pc = "handle_vector_search"
    /\ \E current_config \in {CurrentConfig(args, files)} :
       LET connection_string ==
               IfElse(args.connectionString, Get(current_config, "connectionString", None))
           db_name == IfElse(args.db, Get(current_config, "db", None))
           coll_name == IfElse(args.coll, Get(current_config, "coll", None))
           index == IfElse(args.index, Get(current_config, "index", PyStr("vector_index")))
           field == IfElse(args.field, Get(current_config, "field", None))
           config_project_fields == Get(current_config, "projectField", PyList(<<>>))
           cli_project_fields == IfElse(args.projectField, PyList(<<>>))
           api_key == ResolveApiKey(args.voyageAPIKey, current_config, environ)
           resolved == [ connection_string |-> connection_string,
                         db_name |-> db_name, coll_name |-> coll_name ]
       IN
       IF ConnectionDetailsMissing(connection_string, db_name, coll_name)
       THEN /\ ExitWith(MsgNotConfigured, None)
            /\ local' = resolved
            /\ UNCHANGED pipeline
       ELSE \E project_fields \in
                    ProjectFieldLists(config_project_fields, cli_project_fields) :
            LET found == resolved @@ [ index |-> index, field |-> field,
                                       project_fields |-> project_fields ]
            IN
            IF ~Truthy(field)
            THEN /\ ExitWith(MsgFieldRequired, None)
                 /\ local' = found
                 /\ UNCHANGED pipeline
            ELSE IF Truthy(args.embedWithVoyage)
            THEN IF ~Truthy(api_key)
                 THEN /\ stderr' = stderr \o FieldWarning(field)
                                   \o <<Out(MsgKeyRequired, None)>>
                      /\ exit_code' = PyInt(1)
                      /\ pc' = "exit"
                      /\ local' = [found EXCEPT !.field = SearchField(field)]
                                  @@ [api_key |-> api_key]
                      /\ UNCHANGED pipeline
                 ELSE /\ stderr' = stderr \o FieldWarning(field)
                      /\ local' = [found EXCEPT !.field = SearchField(field)]
                                  @@ [ api_key |-> api_key,
                                       model |-> ResolveModel(args.voyageModel,
                                                              current_config) ]
                      /\ pc' = "voyage_embed"
                      /\ UNCHANGED <<pipeline, exit_code>>
            ELSE /\ stderr' = stderr \o FieldWarning(field)
                 /\ local' = [found EXCEPT !.field = SearchField(field)]
                             @@ [query_vector |-> args.query, query_key |-> "query"]
                 /\ pipeline' = VectorPipeline(index, "query", args.query,
                                               SearchField(field), args.numCandidates,
                                               args.limit, project_fields)
                 /\ pc' = "execute_pipeline"
                 /\ UNCHANGED exit_code
    /\ UNCHANGED <<files, configs_dir, environ, argv, args, stdout, net, runs>>

\* vo.embed([args.query], model=...) and the rest of handle_vector_search.  An
\* exception of the request is caught nowhere: a traceback, and exit status 1.
VoyageEmbed ==
    /\ pc = "voyage_embed"
    /\ \E outcome \in EmbedOutcomes :
        /\ net' = Append(net, CallEmbed(local.api_key, local.model, args.query,
                                        outcome = "ok",
                                        IF outcome = "ok" THEN Embedding ELSE None))
        /\ IF outcome = "ok"
           THEN /\ local' = local @@ [query_vector |-> Embedding,
                                      query_key |-> "queryVector"]
                /\ pipeline' = VectorPipeline(local.index, "queryVector", Embedding,
                                              local.field, args.numCandidates,
                                              args.limit, local.project_fields)
                /\ pc' = "execute_pipeline"
                /\ UNCHANGED <<stderr, exit_code>>
           ELSE /\ ExitWith(MsgTraceback, PyStr(outcome))
                /\ UNCHANGED <<local, pipeline>>
    /\ UNCHANGED <<files, configs_dir, environ, argv, args, stdout, runs>>

(***************************************************************************)
(* The single-command program, src/main.py:                                *)
(* `<query> --connectionString .. --db .. --coll .. [--searchAggFile ..]`  *)
(***************************************************************************)
\* "<key>": "%%SEARCH_QUERY%%"
Member(key) == <<Q, key, Q, ":", Q, Placeholder, Q>>

\* The aggregation files on disk
TemplateFiles ==
    "match.json" :> (<<"[", "{", Q, "$match", Q, ":", "{">> \o Member("x")
                     \o <<"}", "}", "]">>)
    @@ "fixed.json" :> <<"[", "{", Q, "$match", Q, ":", "{", Q, "x", Q, ":",
                         Q, "v", Q, "}", "}", "]">>
    @@ "object.json" :> (<<"{", Q, "$search", Q, ":", "{">> \o Member("query")
                         \o <<"}", "}">>)
    @@ "mixed.json" :> <<"[", "1", ",", Q, Placeholder, Q, "]">>
    @@ "broken.json" :> (<<"[", "{">> \o Member("$match"))
    @@ "late.json" :> (<<"[", "{", Q, "$project", Q, ":", "{", Q, "a", Q, ":", "1",
                         "}", "}", ",", "{", Q, "$search", Q, ":", "{">>
                       \o Member("q") \o <<"}", "}", "]">>)

SingleCommandLines ==
    [ query : {<<"v">>, <<"v", Q, "w">>},
      connectionString : Once({PyStr("mongodb://cli")}),
      db : Once({PyStr(""), PyStr("cli_db")}),
      coll : Once({PyStr("cli_coll")}),
      searchAggFile : Once({PyStr(f) : f \in DOMAIN TemplateFiles \cup {"missing.json"}}),
      verbose : BOOLEAN ]

\* parser.parse_args; query_chars are the characters of args.query
ParseSingle(cl) ==
    [ command |-> PyStr("src/main.py"),
      query |-> PyStr(Join(cl.query)),
      query_chars |-> cl.query,
      connectionString |-> ArgStore(cl.connectionString, None),
      db |-> ArgStore(cl.db, None),
      coll |-> ArgStore(cl.coll, None),
      searchAggFile |-> ArgStore(cl.searchAggFile, None),
      verbose |-> PyBool(cl.verbose) ]

\* main() down to the try block: the three required flags
MainSingle ==
    /\ pc = "shell"
    /\ \E cl \in SingleCommandLines :
        LET a == ParseSingle(cl) IN
        /\ argv' = cl
        /\ args' = a
        /\ IF ~Truthy(a.connectionString) THEN ExitWith(MsgConnRequired, None)
           ELSE IF ~Truthy(a.db) THEN ExitWith(MsgDbRequired, None)
           ELSE IF ~Truthy(a.coll) THEN ExitWith(MsgCollRequired, None)
           ELSE /\ pc' = "single_connect"
                /\ UNCHANGED <<stderr, exit_code>>
    /\ runs' = runs + 1
    /\ UNCHANGED <<files, configs_dir, environ, local, pipeline, stdout, net>>

\* client = MongoClient(args.connectionString); db = ..; collection = ..
SingleConnect ==
    /\ pc = "single_connect"
    /\ \E outcome \in {"ok", "Exception"} :
        /\ net' = Append(net, CallClient(args.connectionString, outcome = "ok"))
        /\ IF outcome = "ok"
           THEN /\ pc' = "single_pipeline"
                /\ UNCHANGED <<stderr, exit_code>>
           ELSE ExitWith(MsgUnexpected, PyStr(outcome))
    /\ UNCHANGED <<files, configs_dir, environ, argv, args, local, pipeline, stdout, runs>>

\* The `if args.searchAggFile:` block: the pipeline of the file, or the message
\* of the error it exits with
ReadTemplate(path, query_chars) ==
    IF path \notin DOMAIN TemplateFiles THEN [error |-> MsgFileNotFound, pipeline |-> None]
    ELSE LET pipeline_str == TemplateFiles[path] IN
         IF ~Contains(pipeline_str, Placeholder)
         THEN [error |-> MsgNoPlaceholder, pipeline |-> None]
         ELSE LET parsed == Loads(Replace(pipeline_str, Placeholder, query_chars)) IN
              IF ~parsed.ok THEN [error |-> MsgInvalidJson, pipeline |-> None]
              ELSE IF ~IsList(parsed.val) THEN [error |-> MsgNotArray, pipeline |-> None]
              ELSE [error |-> "", pipeline |-> parsed.val]

\* The pipeline: the file's, or the default one
SinglePipeline ==
    /\ pc = "single_pipeline"
    /\ IF Truthy(args.searchAggFile)
       THEN LET read == ReadTemplate(args.searchAggFile.str, args.query_chars) IN
            IF read.error # ""
            THEN /\ ExitWith(read.error, args.searchAggFile)
                 /\ UNCHANGED pipeline
            ELSE /\ pipeline' = read.pipeline
                 /\ pc' = "single_aggregate"
                 /\ UNCHANGED <<stderr, exit_code>>
       ELSE /\ pipeline' = DefaultPipeline(args.query)
            /\ pc' = "single_aggregate"
            /\ UNCHANGED <<stderr, exit_code>>
    /\ UNCHANGED <<files, configs_dir, environ, argv, args, local, stdout, net, runs>>

\* How collection.aggregate(...) may end
AggregateOutcomes == {"ok", "ConnectionFailure", "OperationFailure", "Exception"}

\* if args.verbose: ..; results = list(collection.aggregate(pipeline)); print
SingleAggregate ==
    /\ pc = "single_aggregate"
    /\ \E outcome \in AggregateOutcomes, results \in ServerResults :
        /\ net' = Append(net, CallAggregate(args.db, args.coll, pipeline,
                                            outcome = "ok",
                                            IF outcome = "ok" THEN results ELSE None))
        /\ stderr' = stderr \o VerboseOutput(args.verbose, pipeline)
                     \o (IF outcome = "ok" THEN <<>>
                         ELSE <<Out(FailureMessage(outcome), PyStr(outcome))>>)
        /\ stdout' = stdout \o PrintedResults(outcome, results)
        /\ exit_code' = IF outcome = "ok" THEN PyInt(0) ELSE PyInt(1)
    /\ pc' = "exit"
    /\ UNCHANGED <<files, configs_dir, environ, argv, args, local, pipeline, runs>>

(***************************************************************************)
(* One search run, started where `config set` runs left the profiles.      *)
(***************************************************************************)
Init ==
    /\ files \in Stores
    /\ configs_dir = (files # <<>>)
    /\ environ \in Environs
    /\ pc = "shell"
    /\ argv = <<>>
    /\ args = <<>>
    /\ local = <<>>
    /\ pipeline = None
    /\ stdout = <<>>
    /\ stderr = <<>>
    /\ net = <<>>
    /\ exit_code = None
    /\ runs = 0

Next ==
    \/ MainLexical
    \/ HandleLexicalSearch
    \/ MainVector
    \/ HandleVectorSearch
    \/ VoyageEmbed
    \/ ExecutePipeline
    \/ MainSingle
    \/ SingleConnect
    \/ SinglePipeline
    \/ SingleAggregate

Spec == Init /\ [][Next]_vars

(***************************************************************************)
(* What the properties below speak of.                                     *)
(***************************************************************************)
IsCommand(c) == "command" \in DOMAIN args /\ args.command = PyStr(c)

\* A flag counts as given when it occurs with a non-empty value
FlagGiven(occurrences) ==
    occurrences # <<>> /\ Truthy(occurrences[Len(occurrences)])

\* The profile the command line names, as it is on disk
NamedProfile ==
    IF argv.config = <<>> \/ argv.config[1].str \notin DOMAIN files
    THEN EmptyDict
    ELSE Loads(files[argv.config[1].str]).val

\* The calls of one kind made so far
Calls(kind) == {i \in DOMAIN net : net[i].call = kind}

\* The name of a stage (a stage object has one key)
IsStage(x, name) == IsDict(x) /\ name \in DOMAIN x.dict

(***************************************************************************)
(* C2: a `config set <name>` run changes only the keys whose flags it      *)
(* passes: every key the profile already had, its flag omitted, keeps its  *)
(* value; no key is removed; the other profiles stay as they are; and      *)
(* loading the profile afterwards gives the old document merged with the   *)
(* passed flags.                                                           *)
(***************************************************************************)
C2_PartialUpdate ==
    [][ (runs' = runs + 1 /\ args'.command = PyStr("config set")) =>
          \A name \in {args'.name.str} :
          \A old \in {get_config(files, name)}, new \in {get_config(files', name)} :
          /\ name \in DOMAIN files'
          /\ Loads(files'[name]).ok
          /\ DOMAIN old.dict \subseteq DOMAIN new.dict
          /\ \A k \in DOMAIN old.dict : IsNone(args'[k]) => new.dict[k] = old.dict[k]
          /\ \A k \in DOMAIN new.dict :
                (k \notin DOMAIN old.dict \/ new.dict[k] # old.dict[k])
                    => (~IsNone(args'[k]) /\ new.dict[k] = args'[k])
          /\ \A k \in Range(ProfileKeys) : Truthy(args'[k]) => Get(new, k, None) = args'[k]
          /\ \A other \in ProfileNames \ {name} :
                /\ other \in DOMAIN files' <=> other \in DOMAIN files
                /\ other \in DOMAIN files => files'[other] = files[other]
      ]_vars

\* A second `config set p1` has passed --index alone, and the profile still
\* holds the connection string and the database saved before.
C2_Witness ==
    /\ runs >= 2
    /\ IsCommand("config set")
    /\ args.name = PyStr("p1")
    /\ args.index = PyStr("prof_index")
    /\ IsNone(args.db) /\ IsNone(args.connectionString)
    /\ "p1" \in DOMAIN files
    /\ LET doc == Loads(files["p1"]).val IN
        /\ Get(doc, "db", None) = PyStr("prof_db2")
        /\ Get(doc, "connectionString", None) = PyStr("mongodb://prof")
        /\ Get(doc, "index", None) = PyStr("prof_index")

\* The last occurrence of a flag
Last(occurrences) == occurrences[Len(occurrences)]

\* CLI flag when given, else the value of profile prof when it has one, else
\* the default
Layer(occurrences, prof, key, default) ==
    IF FlagGiven(occurrences) THEN Last(occurrences)
    ELSE IF key \in DOMAIN prof.dict THEN prof.dict[key]
    ELSE default

\* A search run of the subcommand program whose handler has acted
HandlerActed ==
    /\ IsCommand("lexical") \/ IsCommand("vector")
    /\ pc \notin {"shell", "handle_lexical_search", "handle_vector_search"}

\* One entry for a list of fields, the value itself otherwise
OneField(v) == IF IsList(v) THEN v.list[1] ELSE v

\* Every setting but voyageModel is used as layered: the connection string by
\* MongoClient, db and coll by the aggregate call, index and field in the
\* search stage (a vector search takes one entry of a list of fields).
C1_OtherSettings ==
    HandlerActed =>
      \A prof \in {NamedProfile} :
        /\ \A i \in Calls("MongoClient") :
             net[i].a = Layer(argv.connectionString, prof, "connectionString", None)
        /\ \A i \in Calls("collection.aggregate") :
             /\ net[i].a = Layer(argv.db, prof, "db", None)
             /\ net[i].b = Layer(argv.coll, prof, "coll", None)
        /\ (pipeline # None /\ IsCommand("lexical")) =>
             LET search == pipeline.list[1].dict["$search"] IN
             /\ search.dict["index"] = Layer(argv.index, prof, "index", PyStr("default"))
             /\ search.dict["text"].dict["path"] =
                  (IF argv.field # <<>> THEN PyList(argv.field)
                   ELSE Get(prof, "field", WildcardPath))
        /\ (pipeline # None /\ IsCommand("vector")) =>
             LET search == pipeline.list[1].dict["$vectorSearch"] IN
             /\ search.dict["index"] = Layer(argv.index, prof, "index", PyStr("vector_index"))
             /\ Len(argv.field) <= 1 =>
                  search.dict["path"] = OneField(Layer(argv.field, prof, "field", None))

\* The model the embedding request is made with is the layered voyageModel.
C1_VoyageModel ==
    HandlerActed =>
      \A prof \in {NamedProfile} :
        \A i \in Calls("voyageai.Client.embed") :
          net[i].b = Layer(argv.voyageModel, prof, "voyageModel", PyStr("voyage-3.5"))

(***************************************************************************)
(* C1: for every setting of lexical and vector (connectionString, db,      *)
(* coll, index, field, voyageModel) the value used in the pipeline or in   *)
(* the library calls is the CLI flag when given, else the profile's value  *)
(* when it has one, else the built-in default.                             *)
(***************************************************************************)
C1_Precedence == C1_OtherSettings /\ C1_VoyageModel

(***************************************************************************)
(* C3: in the $vectorSearch stage numCandidates is 10 x limit when         *)
(* --numCandidates is not on the command line, and the given value when it *)
(* is.                                                                     *)
(***************************************************************************)
C3_NumCandidates ==
    (IsCommand("vector") /\ pipeline # None) =>
      LET search == pipeline.list[1].dict["$vectorSearch"] IN
      search.dict["numCandidates"] =
        (IF argv.numCandidates = <<>>
         THEN PyInt(10 * search.dict["limit"].int)
         ELSE Last(argv.numCandidates))

\* A run is misconfigured when, after layering, the connection string, the
\* database or the collection is empty, or (vector) the field is, or (vector
\* with --embedWithVoyage) no API key comes from flag, profile or environment.
Misconfigured ==
    \/ /\ IsCommand("lexical") \/ IsCommand("vector")
       /\ \E prof \in {NamedProfile} :
            \/ ~Truthy(Layer(argv.connectionString, prof, "connectionString", None))
            \/ ~Truthy(Layer(argv.db, prof, "db", None))
            \/ ~Truthy(Layer(argv.coll, prof, "coll", None))
            \/ /\ IsCommand("vector")
               /\ ~Truthy(Layer(argv.field, prof, "field", None))
            \/ /\ IsCommand("vector")
               /\ argv.embedWithVoyage
               /\ ~FlagGiven(argv.voyageAPIKey)
               /\ "voyageAPIKey" \notin DOMAIN prof.dict
               /\ "VOYAGE_API_KEY" \notin DOMAIN environ.dict
    \/ /\ IsCommand("src/main.py")
       /\ \/ ~FlagGiven(argv.connectionString)
          \/ ~FlagGiven(argv.db)
          \/ ~FlagGiven(argv.coll)

\* The first step of the run (the handler, or main of src/main.py) is done
Validated ==
    \/ HandlerActed
    \/ IsCommand("src/main.py") /\ pc # "shell"

(***************************************************************************)
(* C4: a misconfigured search run (lexical, vector, src/main.py) ends with *)
(* exit code 1 and an error on the diagnostic stream, and makes no library *)
(* call that reaches the network (embedding request, database client,      *)
(* aggregate) at any point.                                                *)
(***************************************************************************)
C4_FailBeforeNetwork ==
    Misconfigured =>
      /\ net = <<>>
      /\ Validated =>
           /\ pc = "exit"
           /\ exit_code = PyInt(1)
           /\ stderr # <<>>
           /\ stdout = <<>>

\* A vector run with --embedWithVoyage, its connection details and field in
\* place, has ended on the missing API key.
C4_Witness ==
    /\ IsCommand("vector")
    /\ pc = "exit"
    /\ exit_code = PyInt(1)
    /\ Truthy(args.embedWithVoyage)
    /\ "field" \in DOMAIN local
    /\ stderr[Len(stderr)] = Out(MsgKeyRequired, None)
    /\ net = <<>>

(***************************************************************************)
(* C5: the API key of the embedding request is the --voyageAPIKey flag     *)
(* when given (with a non-empty value), else the profile's voyageAPIKey    *)
(* when it has one, else the VOYAGE_API_KEY environment variable.          *)
(***************************************************************************)
C5_ApiKeyOrder ==
    IsCommand("vector") =>
      \A i \in Calls("voyageai.Client.embed") :
        \A prof \in {NamedProfile} :
          /\ Truthy(net[i].a)
          /\ net[i].a =
               (IF FlagGiven(argv.voyageAPIKey) THEN Last(argv.voyageAPIKey)
                ELSE IF "voyageAPIKey" \in DOMAIN prof.dict THEN prof.dict["voyageAPIKey"]
                ELSE environ.dict["VOYAGE_API_KEY"])

\* The request was made with the profile's key, no flag given, though the
\* environment variable is set.
C5_Witness ==
    /\ IsCommand("vector")
    /\ Calls("voyageai.Client.embed") # {}
    /\ ~FlagGiven(argv.voyageAPIKey)
    /\ "VOYAGE_API_KEY" \in DOMAIN environ.dict
    /\ net[1].a = PyStr("prof_key")

\* The places of the stages of one name in a pipeline
StagesNamed(p, name) == {i \in DOMAIN p.list : IsStage(p.list[i], name)}

(***************************************************************************)
(* C6: with P the profile's projectField list and C the --projectField     *)
(* flags, the resolved project fields are the elements of P \cup C, each   *)
(* once; when there is one, a single $project stage ends the pipeline and  *)
(* maps each of them to 1; when there is none, no $project stage is there. *)
(***************************************************************************)
C6_ProjectUnion ==
    (HandlerActed /\ "project_fields" \in DOMAIN local) =>
      \A prof \in {NamedProfile} :
        LET want == Range(Get(prof, "projectField", PyList(<<>>)).list)
                    \cup Range(argv.projectField)
        IN
        /\ Range(local.project_fields) = want
        /\ Len(local.project_fields) = Cardinality(want)
        /\ pipeline # None =>
             IF want = {}
             THEN StagesNamed(pipeline, "$project") = {}
             ELSE /\ StagesNamed(pipeline, "$project") = {Len(pipeline.list)}
                  /\ pipeline.list[Len(pipeline.list)].dict["$project"]
                       = PyDict([name \in {w.str : w \in want} |-> PyInt(1)])

\* Profile fields a, b and flags b, c: the pipeline ends in a $project of a, b, c.
C6_Witness ==
    /\ HandlerActed
    /\ pipeline # None
    /\ argv.projectField = <<PyStr("b"), PyStr("c")>>
    /\ Get(NamedProfile, "projectField", None) = PyList(<<PyStr("a"), PyStr("b")>>)
    /\ DOMAIN pipeline.list[Len(pipeline.list)].dict["$project"].dict = {"a", "b", "c"}

\* The multi-entry field list of the profile, when no --field flag overrides it
ProfileFields(prof) ==
    IF /\ ~FlagGiven(argv.field)
       /\ "field" \in DOMAIN prof.dict
       /\ IsList(prof.dict["field"])
       /\ Len(prof.dict["field"].list) > 1
    THEN prof.dict["field"].list
    ELSE <<>>

\* The warnings about several fields written so far
FieldWarnings == {i \in DOMAIN stderr : stderr[i].line = MsgMultipleFields}

\* A vector run whose handler has passed the check of the connection details
\* with a field in hand
FieldTaken ==
    /\ IsCommand("vector")
    /\ HandlerActed
    /\ "field" \in DOMAIN local
    /\ Truthy(local.field)

\* The run did not end on the warning: it goes on, or it ended on a later step
NotAbortedByWarning ==
    /\ pc = "exit" => stderr[Len(stderr)].line # MsgMultipleFields \/ exit_code = PyInt(0)
    /\ pc # "exit" => exit_code = None

SearchRun == IsCommand("lexical") \/ IsCommand("vector") \/ IsCommand("src/main.py")

(***************************************************************************)
(* C9: a search run prints to standard output only after the aggregate     *)
(* call has returned: it ends either with the whole result list printed    *)
(* once and exit code 0, or with nothing on standard output and exit code  *)
(* 1; no call is made a second time.                                       *)
(***************************************************************************)
C9_AllOrNothing ==
    SearchRun =>
      /\ stdout # <<>> =>
           /\ \E i \in Calls("collection.aggregate") :
                /\ net[i].returned
                /\ stdout = <<Out(MsgResults, net[i].value)>>
           /\ pc = "exit"
           /\ exit_code = PyInt(0)
      /\ pc = "exit" =>
           \/ exit_code = PyInt(0) /\ Len(stdout) = 1
           \/ exit_code = PyInt(1) /\ stdout = <<>>
      /\ pc # "exit" => exit_code = None
      /\ \A kind \in {"voyageai.Client.embed", "MongoClient", "collection.aggregate"} :
           Cardinality(Calls(kind)) <= 1

\* The aggregate call was made and failed: nothing printed, exit code 1.
C9_Witness ==
    /\ SearchRun
    /\ pc = "exit"
    /\ \E i \in Calls("collection.aggregate") : ~net[i].returned
    /\ stdout = <<>>
    /\ exit_code = PyInt(1)

\* At most one search stage, and first; $project at most once, and last
WellFormed(p) ==
    /\ IsList(p)
    /\ \A i \in DOMAIN p.list :
         /\ (IsStage(p.list[i], "$search") \/ IsStage(p.list[i], "$vectorSearch")) => i = 1
         /\ IsStage(p.list[i], "$project") => i = Len(p.list)

\* In lexical mode $search, then $limit with the resolved limit
LimitFollowsSearch(p) ==
    /\ Len(p.list) >= 2
    /\ IsStage(p.list[1], "$search")
    /\ p.list[2] = PyDict("$limit" :> (IF argv.limit = <<>> THEN PyInt(10)
                                       ELSE Last(argv.limit)))

\* A run of the single-command program with --searchAggFile
TemplateRun == IsCommand("src/main.py") /\ FlagGiven(argv.searchAggFile)

\* C10 as first stated: the shape holds of every pipeline handed to
\* aggregate, a raw template's included.
C10_EveryPipelineWellFormed ==
    SearchRun =>
      \A i \in Calls("collection.aggregate") :
        /\ WellFormed(net[i].c)
        /\ IsCommand("lexical") => LimitFollowsSearch(net[i].c)

(***************************************************************************)
(* C10: every pipeline the program builds itself (lexical, vector, the     *)
(* default pipeline of src/main.py) and hands to aggregate has its one     *)
(* search stage first, $project at most once and last, and in lexical mode *)
(* $limit with the resolved limit right after $search.  A raw template is  *)
(* handed over as parsed, whatever its stages.                             *)
(***************************************************************************)
C10_BuiltPipelineWellFormed ==
    (SearchRun /\ ~TemplateRun) =>
      \A i \in Calls("collection.aggregate") :
        /\ WellFormed(net[i].c)
        /\ IsStage(net[i].c.list[1], "$search") \/ IsStage(net[i].c.list[1], "$vectorSearch")
        /\ IsCommand("lexical") => LimitFollowsSearch(net[i].c)

\* A lexical pipeline of $search, $limit 5 and $project was handed to aggregate.
C10_Witness ==
    /\ IsCommand("lexical")
    /\ \E i \in Calls("collection.aggregate") :
         /\ Len(net[i].c.list) = 3
         /\ net[i].c.list[2] = PyDict("$limit" :> PyInt(5))
         /\ IsStage(net[i].c.list[3], "$project")

\* The file is there, holds the placeholder, and with the query put in parses
\* to an array of objects
TemplateAcceptable ==
    /\ argv.searchAggFile[1].str \in DOMAIN TemplateFiles
    /\ \A text \in {TemplateFiles[argv.searchAggFile[1].str]} :
         /\ Contains(text, Placeholder)
         /\ \A parsed \in {Loads(Replace(text, Placeholder, argv.query))} :
              /\ parsed.ok
              /\ IsList(parsed.val)
              /\ \A i \in DOMAIN parsed.val.list : IsDict(parsed.val.list[i])

(***************************************************************************)
(* C7: in raw-template mode every template that is not acceptable (file    *)
(* missing, placeholder missing, invalid JSON, not an array, an element    *)
(* that is not an object) ends the run with exit code 1 and an input       *)
(* error; the aggregation is never submitted and no network attempt comes  *)
(* before the error.  (Runs whose database client could not be built are   *)
(* left aside: they end before the template is read.)                      *)
(***************************************************************************)
C7_TemplateRejected ==
    (/\ TemplateRun
     /\ ~Misconfigured
     /\ \A i \in Calls("MongoClient") : net[i].returned
     /\ ~TemplateAcceptable) =>
      /\ pipeline = None
      /\ Calls("collection.aggregate") = {}
      /\ pc = "exit" =>
           /\ exit_code = PyInt(1)
           /\ stderr[Len(stderr)].line \in
                {MsgFileNotFound, MsgNoPlaceholder, MsgInvalidJson, MsgNotArray}
           /\ net = <<>>
====
